---- MODULE Spec2Model ----
(***************************************************************************)
(* Model of src/cpp/src/policy.cc: the scheduling policy of Schedlab.      *)
(*                                                                         *)
(* policy(events, current_cpu, current_io) applies the events of a batch   *)
(* to the global table task_states, one after the other, and then selects  *)
(* a CPU task and an IO task.  One call is modelled as a run of event      *)
(* steps (one step per iteration of the loop over the batch, pc = "loop")  *)
(* closed by the selection step (pc = "returned").  A step taken when      *)
(* pc = "returned" is the first step of the next call.                     *)
(***************************************************************************)
EXTENDS Integers, FiniteSets, Sequences, TLC

\* ---------------------------------------------------------------------
\* Input domains
\* ---------------------------------------------------------------------
TaskIds == {1, 2}
Priorities == {"kHigh", "kLow"}
Deadlines == {20}
ArrivalTimes == {6}
TimerTimes == {0, 6, 12}

\* Input domains of SpecSnap: two deadlines and two arrival times, IO events
\* for one task id, and at most SnapMaxTicks Timer events while it does IO
SnapDeadlines == {20, 30}
SnapArrivalTimes == {6, 11}
SnapIoIds == {1}
SnapMaxTicks == 2

\* SpecBatch: at most BatchMaxTicks Timer events while a record does IO
BatchMaxTicks == 2

\* Input domains of SpecHist: one Timer timestamp, at most MaxTicks Timer
\* events counted after an IoRequest, and IoRequest and IoEnd events that
\* carry a task snapshot with any of these deadlines
HistTimerTimes == {12}
MaxTicks == 12
EventDeadlines == {20, 30}

\* policy.cc:94   io_remaining = 10
IoTime == 10
\* policy.cc:66-67  0 means "idle"
Idle == 0

VARIABLES
    task_states,   \* policy.cc:18   taskId -> TaskState, the live records
    action,        \* policy.cc:65   the Action being built / last returned
    current_cpu,   \* policy.cc:63   parameter of the call (read at selection)
    current_io,    \* policy.cc:64   parameter of the call (read at selection)
    pc,            \* "loop": inside the event loop; "returned": call done
    finished,      \* history: ids whose last lifecycle event is a Finish
    io_requested,  \* history: per id, what this call's batch did about IO
    held,          \* history: ids whose urgency 2 survived a recomputation
    arrival_time,  \* history: per id, the timestamp of its last Arrival
    shadow,        \* history (SpecSnap): the table one whole batch builds
    ticks,         \* history (SpecHist, SpecSnap): Timer events since IoRequest
    note           \* history (SpecHist): what the last event of the batch was

vars == <<task_states, action, current_cpu, current_io, pc, finished, io_requested,
          held, arrival_time, shadow, ticks, note>>

\* ---------------------------------------------------------------------
\* Helpers
\* ---------------------------------------------------------------------
Max(a, b) == IF a > b THEN a ELSE b

Live == DOMAIN task_states

\* the record of an Arrival with remaining_time = deadline
NewState_fullrem(t, dl, pr, time) ==
    [ task           |-> [taskId |-> t, deadline |-> dl, priority |-> pr],
      is_io_active   |-> FALSE,
      remaining_time |-> dl,
      slack_time     |-> dl - time,
      io_remaining   |-> 0,
      urgency_level  |-> 0 ]

\* policy.cc:74-81  the record an Arrival stores
NewState(t, dl, pr, time) ==
    [ task           |-> [taskId |-> t, deadline |-> dl, priority |-> pr],
      is_io_active   |-> FALSE,
      remaining_time |-> dl - time,
      slack_time     |-> dl - time,
      io_remaining   |-> 0,
      urgency_level  |-> 0 ]

\* update_task_states whose high-priority boost assigns 1 instead of max(.., 1)
update_task_states_boost(current_time) ==
    [ id \in DOMAIN task_states |->
        LET state == task_states[id] IN
        IF ~state.is_io_active
        THEN LET slack == state.task.deadline - current_time - state.remaining_time
                 base  == IF slack <= 0 THEN 2 ELSE IF slack <= 5 THEN 1 ELSE 0
                 urg   == IF state.task.priority = "kHigh" /\ slack <= 10
                          THEN 1 ELSE base
             IN  [state EXCEPT !.slack_time = slack, !.urgency_level = urg]
        ELSE state ]

\* update_task_states without the is_io_active test
update_task_states_all(current_time) ==
    [ id \in DOMAIN task_states |->
        LET state == task_states[id]
            slack == state.task.deadline - current_time - state.remaining_time
            base  == IF slack <= 0 THEN 2 ELSE IF slack <= 5 THEN 1 ELSE 0
            urg   == IF state.task.priority = "kHigh" /\ slack <= 10
                     THEN Max(base, 1) ELSE base
        IN  [state EXCEPT !.slack_time = slack, !.urgency_level = urg] ]

\* update_task_states with the sign of the slack computation inverted
update_task_states_sign(current_time) ==
    [ id \in DOMAIN task_states |->
        LET state == task_states[id] IN
        IF ~state.is_io_active
        THEN LET slack == current_time - state.task.deadline + state.remaining_time
                 base  == IF slack <= 0 THEN 2 ELSE IF slack <= 5 THEN 1 ELSE 0
                 urg   == IF state.task.priority = "kHigh" /\ slack <= 10
                          THEN Max(base, 1) ELSE base
             IN  [state EXCEPT !.slack_time = slack, !.urgency_level = urg]
        ELSE state ]

\* policy.cc:39-61
update_task_states(current_time) ==
    [ id \in DOMAIN task_states |->
        LET state == task_states[id] IN
        IF ~state.is_io_active
        THEN LET slack == state.task.deadline - current_time - state.remaining_time
                 base  == IF slack <= 0 THEN 2 ELSE IF slack <= 5 THEN 1 ELSE 0
                 urg   == IF state.task.priority = "kHigh" /\ slack <= 10
                          THEN Max(base, 1) ELSE base
             IN  [state EXCEPT !.slack_time = slack, !.urgency_level = urg]
        ELSE state ]

\* the countdown without the io_remaining > 0 test
io_countdown_nofloor(states) ==
    [ id \in DOMAIN states |->
        IF states[id].is_io_active
        THEN [states[id] EXCEPT !.io_remaining = @ - 1]
        ELSE states[id] ]

\* the countdown that ends the IO of a record when it reaches 0
io_countdown_release(states) ==
    [ id \in DOMAIN states |->
        IF states[id].is_io_active /\ states[id].io_remaining > 0
        THEN [states[id] EXCEPT !.io_remaining = @ - 1,
                                !.is_io_active = (states[id].io_remaining > 1)]
        ELSE states[id] ]

\* policy.cc:109-113
io_countdown(states) ==
    [ id \in DOMAIN states |->
        IF states[id].is_io_active /\ states[id].io_remaining > 0
        THEN [states[id] EXCEPT !.io_remaining = @ - 1]
        ELSE states[id] ]

\* compare_urgency with the slack comparison reversed
compare_urgency_rev(a, b) ==
    LET urgency_a == task_states[a.taskId].urgency_level
        urgency_b == task_states[b.taskId].urgency_level
    IN  IF urgency_a # urgency_b
        THEN urgency_a > urgency_b
        ELSE task_states[a.taskId].slack_time > task_states[b.taskId].slack_time

\* policy.cc:21-28
compare_urgency(a, b) ==
    LET urgency_a == task_states[a.taskId].urgency_level
        urgency_b == task_states[b.taskId].urgency_level
    IN  IF urgency_a # urgency_b
        THEN urgency_a > urgency_b
        ELSE task_states[a.taskId].slack_time < task_states[b.taskId].slack_time

\* compare_priority_urgency without the priority test
compare_priority_urgency_noprio(a, b) ==
    LET urgency_a == task_states[a.taskId].urgency_level
        urgency_b == task_states[b.taskId].urgency_level
    IN  IF urgency_a # urgency_b
        THEN urgency_a > urgency_b
        ELSE task_states[a.taskId].slack_time < task_states[b.taskId].slack_time

\* policy.cc:31-36
compare_priority_urgency(a, b) ==
    IF a.priority # b.priority
    THEN a.priority = "kHigh"
    ELSE compare_urgency(a, b)

\* the IO ordering with the io_remaining comparison reversed
compare_io_rev(a, b) ==
    IF a.priority # b.priority
    THEN a.priority = "kHigh"
    ELSE task_states[a.taskId].io_remaining > task_states[b.taskId].io_remaining

\* policy.cc:148-153  the lambda ordering io_tasks
compare_io(a, b) ==
    IF a.priority # b.priority
    THEN a.priority = "kHigh"
    ELSE task_states[a.taskId].io_remaining < task_states[b.taskId].io_remaining

\* ready_tasks without the is_io_active filter
ready_tasks_all ==
    { task_states[id].task : id \in DOMAIN task_states }

\* policy.cc:122-127
ready_tasks ==
    { task_states[id].task : id \in { i \in DOMAIN task_states : ~task_states[i].is_io_active } }

\* io_tasks without the is_io_active filter
io_tasks_any(cur_cpu) ==
    { task_states[id].task : id \in { i \in DOMAIN task_states : i # cur_cpu } }

\* policy.cc:141-146
io_tasks(cur_cpu) ==
    { task_states[id].task :
        id \in { i \in DOMAIN task_states : task_states[i].is_io_active /\ i # cur_cpu } }

\* policy.cc:130-135  std::sort then element [0]: std::sort leaves the order of
\* equivalent elements unspecified and the table is an unordered_map, so the
\* first element is any element that no other element precedes.
cpu_choices ==
    IF ready_tasks = {} THEN {Idle}
    ELSE { a.taskId : a \in { x \in ready_tasks :
                               \A y \in ready_tasks : ~compare_priority_urgency(y, x) } }

\* io_choices that reselects on every call, busy device or not
io_choices_reselect(cur_cpu, cur_io) ==
    IF io_tasks(cur_cpu) = {} THEN {Idle}
    ELSE { a.taskId : a \in { x \in io_tasks(cur_cpu) :
                               \A y \in io_tasks(cur_cpu) : ~compare_io(y, x) } }

\* io_choices with the test on current_io inverted
io_choices_inverted(cur_cpu, cur_io) ==
    IF cur_io # 0
    THEN IF io_tasks(cur_cpu) = {} THEN {Idle}
         ELSE { a.taskId : a \in { x \in io_tasks(cur_cpu) :
                                    \A y \in io_tasks(cur_cpu) : ~compare_io(y, x) } }
    ELSE {cur_io}

\* policy.cc:139-160
io_choices(cur_cpu, cur_io) ==
    IF cur_io = 0
    THEN IF io_tasks(cur_cpu) = {} THEN {Idle}
         ELSE { a.taskId : a \in { x \in io_tasks(cur_cpu) :
                                    \A y \in io_tasks(cur_cpu) : ~compare_io(y, x) } }
    ELSE {cur_io}

\* ---------------------------------------------------------------------
\* Per-call history: "none" / "req" (an IoRequest was applied to the live
\* record and nothing later in the batch touched the id) / "stale" (an
\* IoRequest was applied, then an Arrival, Finish or IoEnd for the id).
\* ---------------------------------------------------------------------
NoReq == [id \in TaskIds |-> "none"]
CallReq == IF pc = "returned" THEN NoReq ELSE io_requested
Touch(t) == [CallReq EXCEPT ![t] = IF @ = "none" THEN "none" ELSE "stale"]

\* The timestamp of the Timer event that computed the slack_time of a record
\* (policy.cc:42 solved for current_time).
LastTimer(id) ==
    task_states[id].task.deadline - task_states[id].remaining_time
        - task_states[id].slack_time

\* policy.cc:65-67  entering the event loop of a call
EnterLoop ==
    /\ pc' = "loop"
    /\ action' = [cpuTask |-> Idle, ioTask |-> Idle]
    /\ current_cpu' = 0
    /\ current_io' = 0

\* ---------------------------------------------------------------------
\* The event loop as a function of an explicit table: what policy.cc:70-119
\* does to the table when the events are applied within one call.
\* ---------------------------------------------------------------------
\* policy.cc:74-81
batch_arrival(states, t, dl, pr, time) ==
    [ id \in DOMAIN states \cup {t} |->
        IF id = t THEN NewState(t, dl, pr, time) ELSE states[id] ]

\* policy.cc:86
batch_finish(states, t) ==
    [ id \in DOMAIN states \ {t} |-> states[id] ]

\* policy.cc:91-95
batch_io_request(states, t) ==
    IF t \in DOMAIN states
    THEN [states EXCEPT ![t].is_io_active = TRUE, ![t].io_remaining = IoTime]
    ELSE states

\* policy.cc:100-103
batch_io_end(states, t) ==
    IF t \in DOMAIN states
    THEN [states EXCEPT ![t].is_io_active = FALSE, ![t].io_remaining = 0]
    ELSE states

\* policy.cc:108-113 (with update_task_states, policy.cc:39-61)
batch_timer(states, current_time) ==
    io_countdown(
      [ id \in DOMAIN states |->
          LET state == states[id] IN
          IF ~state.is_io_active
          THEN LET slack == state.task.deadline - current_time - state.remaining_time
                   base  == IF slack <= 0 THEN 2 ELSE IF slack <= 5 THEN 1 ELSE 0
                   urg   == IF state.task.priority = "kHigh" /\ slack <= 10
                            THEN Max(base, 1) ELSE base
               IN  [state EXCEPT !.slack_time = slack, !.urgency_level = urg]
          ELSE state ])

\* Initial values of the history variables
NoArrival == [id \in TaskIds |-> -1]
NoTicks == [id \in TaskIds |-> 0]
NoNote == <<"none", 0>>

\* ---------------------------------------------------------------------
\* Actions
\* ---------------------------------------------------------------------
Init ==
    /\ task_states = << >>
    /\ action = [cpuTask |-> Idle, ioTask |-> Idle]
    /\ current_cpu = 0
    /\ current_io = 0
    /\ pc = "loop"
    /\ finished = {}
    /\ io_requested = NoReq
    /\ held = {}
    /\ arrival_time = NoArrival
    /\ shadow = << >>
    /\ ticks = NoTicks
    /\ note = NoNote

\* policy.cc:72-82
kTaskArrival(t, dl, pr, time) ==
    /\ EnterLoop
    /\ task_states' = [ id \in DOMAIN task_states \cup {t} |->
                          IF id = t THEN NewState(t, dl, pr, time) ELSE task_states[id] ]
    /\ finished' = finished \ {t}
    /\ io_requested' = Touch(t)
    /\ held' = held \ {t}

\* kTaskFinish that leaves the record in the table
kTaskFinish_keep(t) ==
    /\ EnterLoop
    /\ task_states' = task_states
    /\ finished' = finished \cup {t}
    /\ io_requested' = Touch(t)
    /\ held' = held \ {t}

\* policy.cc:84-87
kTaskFinish(t) ==
    /\ EnterLoop
    /\ task_states' = [ id \in DOMAIN task_states \ {t} |-> task_states[id] ]
    /\ finished' = finished \cup {t}
    /\ io_requested' = Touch(t)
    /\ held' = held \ {t}

\* kIoRequest without the count() test: operator[] creates a
\* value-initialised record for an id that has none
kIoRequest_create(t) ==
    /\ EnterLoop
    /\ task_states' = [ id \in DOMAIN task_states \cup {t} |->
                          IF id # t THEN task_states[id]
                          ELSE IF t \in DOMAIN task_states
                               THEN [task_states[t] EXCEPT !.is_io_active = TRUE,
                                                           !.io_remaining = IoTime]
                               ELSE [ task |-> [taskId |-> 0, deadline |-> 0,
                                                priority |-> "kHigh"],
                                      is_io_active   |-> TRUE,
                                      remaining_time |-> 0,
                                      slack_time     |-> 0,
                                      io_remaining   |-> IoTime,
                                      urgency_level  |-> 0 ] ]
    /\ io_requested' = IF t \in DOMAIN task_states
                       THEN [CallReq EXCEPT ![t] = "req"]
                       ELSE CallReq
    /\ UNCHANGED <<finished, held>>

\* kIoRequest that leaves io_remaining alone when the record is IO-active
kIoRequest_noreset(t) ==
    /\ EnterLoop
    /\ task_states' = IF t \in DOMAIN task_states /\ ~task_states[t].is_io_active
                      THEN [task_states EXCEPT ![t].is_io_active = TRUE,
                                               ![t].io_remaining = IoTime]
                      ELSE task_states
    /\ io_requested' = IF t \in DOMAIN task_states
                       THEN [CallReq EXCEPT ![t] = "req"]
                       ELSE CallReq
    /\ UNCHANGED <<finished, held>>

\* kIoRequest that sets io_remaining but not is_io_active
kIoRequest_noflag(t) ==
    /\ EnterLoop
    /\ task_states' = IF t \in DOMAIN task_states
                      THEN [task_states EXCEPT ![t].io_remaining = IoTime]
                      ELSE task_states
    /\ io_requested' = IF t \in DOMAIN task_states
                       THEN [CallReq EXCEPT ![t] = "req"]
                       ELSE CallReq
    /\ UNCHANGED <<finished, held>>

\* policy.cc:89-96
kIoRequest(t) ==
    /\ EnterLoop
    /\ task_states' = IF t \in DOMAIN task_states
                      THEN [task_states EXCEPT ![t].is_io_active = TRUE,
                                               ![t].io_remaining = IoTime]
                      ELSE task_states
    /\ io_requested' = IF t \in DOMAIN task_states
                       THEN [CallReq EXCEPT ![t] = "req"]
                       ELSE CallReq
    /\ UNCHANGED <<finished, held>>

\* policy.cc:98-104
kIoEnd(t) ==
    /\ EnterLoop
    /\ task_states' = IF t \in DOMAIN task_states
                      THEN [task_states EXCEPT ![t].is_io_active = FALSE,
                                               ![t].io_remaining = 0]
                      ELSE task_states
    /\ io_requested' = Touch(t)
    /\ UNCHANGED <<finished, held>>

\* policy.cc:106-114
kTimer(time) ==
    /\ EnterLoop
    /\ task_states' = io_countdown(update_task_states(time))
    /\ io_requested' = CallReq
    /\ held' = { id \in DOMAIN task_states :
                  IF task_states[id].is_io_active
                  THEN id \in held
                  ELSE task_states[id].urgency_level = 2 /\ time >= LastTimer(id) }
    /\ UNCHANGED finished

\* the selection reading task_states[current_cpu] with operator[], which
\* creates a value-initialised record for an id that has none
Select_touch(cpu, io) ==
    /\ \E c \in cpu_choices, i \in io_choices(cpu, io) :
          action' = [cpuTask |-> c, ioTask |-> i]
    /\ current_cpu' = cpu
    /\ current_io' = io
    /\ pc' = "returned"
    /\ io_requested' = CallReq
    /\ task_states' = [ id \in DOMAIN task_states \cup ({cpu} \ {0}) |->
                          IF id \in DOMAIN task_states THEN task_states[id]
                          ELSE [ task |-> [taskId |-> 0, deadline |-> 0,
                                           priority |-> "kHigh"],
                                 is_io_active   |-> FALSE,
                                 remaining_time |-> 0,
                                 slack_time     |-> 0,
                                 io_remaining   |-> 0,
                                 urgency_level  |-> 0 ] ]
    /\ UNCHANGED <<finished, held>>

\* policy.cc:121-162  selection and return
Select(cpu, io) ==
    /\ \E c \in cpu_choices, i \in io_choices(cpu, io) :
          action' = [cpuTask |-> c, ioTask |-> i]
    /\ current_cpu' = cpu
    /\ current_io' = io
    /\ pc' = "returned"
    /\ io_requested' = CallReq
    /\ UNCHANGED <<task_states, finished, held>>

\* ---------------------------------------------------------------------
\* History kept by the steps of the three specifications
\* ---------------------------------------------------------------------
\* arrival_time: the timestamp of the Arrival that created the record
ArrivedAt(t, time) == arrival_time' = [arrival_time EXCEPT ![t] = time]
Departed(t) == arrival_time' = [arrival_time EXCEPT ![t] = -1]

\* ticks: Timer events applied to an IO-active record since its IoRequest
TicksReset(t) == ticks' = [ticks EXCEPT ![t] = 0]
TicksCount ==
    ticks' = [ id \in TaskIds |->
                 IF id \in DOMAIN task_states /\ task_states[id].is_io_active
                 THEN ticks[id] + 1 ELSE ticks[id] ]

\* note: the event named an id without a record, or carried a task snapshot
\* (id, deadline, priority) other than the stored one
EventNote(t, dl, pr) ==
    IF t \notin DOMAIN task_states THEN <<"unknown_id", t>>
    ELSE IF \/ task_states[t].task.deadline # dl
            \/ task_states[t].task.priority # pr
         THEN <<"other_snapshot", t>>
         ELSE NoNote

\* note in SpecBatch: the number of calls so far whose batch held an event,
\* counted up to 2
BatchNote ==
    LET k == IF note[1] = "batches" THEN note[2] ELSE 0
    IN  note' = IF k = 0 \/ pc = "returned"
                THEN <<"batches", IF k < 2 THEN k + 1 ELSE 2>>
                ELSE note

\* ---------------------------------------------------------------------
\* Spec: one deadline, one arrival time, three Timer timestamps.
\* ---------------------------------------------------------------------
\* policy.cc:72-82
Arrival(t, dl, pr, time) ==
    /\ kTaskArrival(t, dl, pr, time)
    /\ ArrivedAt(t, time)
    /\ UNCHANGED <<shadow, ticks, note>>

\* policy.cc:84-87
Finish(t) ==
    /\ kTaskFinish(t)
    /\ Departed(t)
    /\ UNCHANGED <<shadow, ticks, note>>

\* policy.cc:89-96
IoRequest(t) ==
    /\ kIoRequest(t)
    /\ UNCHANGED <<arrival_time, shadow, ticks, note>>

\* policy.cc:98-104
IoEnd(t) ==
    /\ kIoEnd(t)
    /\ UNCHANGED <<arrival_time, shadow, ticks, note>>

\* policy.cc:106-114
Timer(time) ==
    /\ kTimer(time)
    /\ UNCHANGED <<arrival_time, shadow, ticks, note>>

\* policy.cc:121-162
Return(cpu, io) ==
    /\ Select(cpu, io)
    /\ UNCHANGED <<arrival_time, shadow, ticks, note>>

Next ==
    \/ \E t \in TaskIds, dl \in Deadlines, pr \in Priorities, time \in ArrivalTimes :
          Arrival(t, dl, pr, time)
    \/ \E t \in TaskIds : Finish(t)
    \/ \E t \in TaskIds : IoRequest(t)
    \/ \E t \in TaskIds : IoEnd(t)
    \/ \E time \in TimerTimes : Timer(time)
    \/ \E cpu \in {0} \cup TaskIds, io \in {0} \cup TaskIds : Return(cpu, io)

Spec == Init /\ [][Next]_vars

\* ---------------------------------------------------------------------
\* SpecHist: the same program with one Timer timestamp, keeping ticks and
\* note.  An IoRequest or IoEnd carries a task snapshot of which the code
\* reads the id only (policy.cc:91-94, 100-102).
\* ---------------------------------------------------------------------
\* policy.cc:72-82
HistArrival(t, dl, pr, time) ==
    /\ kTaskArrival(t, dl, pr, time)
    /\ ArrivedAt(t, time)
    /\ TicksReset(t)
    /\ note' = NoNote
    /\ UNCHANGED shadow

\* policy.cc:84-87
HistFinish(t) ==
    /\ kTaskFinish(t)
    /\ Departed(t)
    /\ TicksReset(t)
    /\ note' = IF t \in DOMAIN task_states THEN NoNote ELSE <<"unknown_id", t>>
    /\ UNCHANGED shadow

\* kIoRequest that stores the task snapshot carried by the event
HistIoRequest_reread(t, dl, pr) ==
    /\ EnterLoop
    /\ task_states' = IF t \in DOMAIN task_states
                      THEN [task_states EXCEPT
                              ![t].task = [taskId |-> t, deadline |-> dl,
                                           priority |-> pr],
                              ![t].is_io_active = TRUE,
                              ![t].io_remaining = IoTime]
                      ELSE task_states
    /\ io_requested' = IF t \in DOMAIN task_states
                       THEN [CallReq EXCEPT ![t] = "req"]
                       ELSE CallReq
    /\ UNCHANGED <<finished, held>>
    /\ TicksReset(t)
    /\ note' = EventNote(t, dl, pr)
    /\ UNCHANGED <<arrival_time, shadow>>

\* policy.cc:89-96
HistIoRequest(t, dl, pr) ==
    /\ kIoRequest(t)
    /\ TicksReset(t)
    /\ note' = EventNote(t, dl, pr)
    /\ UNCHANGED <<arrival_time, shadow>>

\* policy.cc:98-104
HistIoEnd(t, dl, pr) ==
    /\ kIoEnd(t)
    /\ TicksReset(t)
    /\ note' = EventNote(t, dl, pr)
    /\ UNCHANGED <<arrival_time, shadow>>

\* policy.cc:106-114
HistTimer(time) ==
    /\ \A id \in TaskIds : ticks[id] < MaxTicks
    /\ kTimer(time)
    /\ TicksCount
    /\ note' = NoNote
    /\ UNCHANGED <<arrival_time, shadow>>

\* policy.cc:121-162
HistReturn(cpu, io) ==
    /\ Select(cpu, io)
    /\ UNCHANGED <<arrival_time, shadow, ticks, note>>

NextHist ==
    \/ \E t \in TaskIds, dl \in Deadlines, pr \in Priorities, time \in ArrivalTimes :
          HistArrival(t, dl, pr, time)
    \/ \E t \in TaskIds : HistFinish(t)
    \/ \E t \in TaskIds, dl \in EventDeadlines, pr \in Priorities : HistIoRequest(t, dl, pr)
    \/ \E t \in TaskIds, dl \in EventDeadlines, pr \in Priorities : HistIoEnd(t, dl, pr)
    \/ \E time \in HistTimerTimes : HistTimer(time)
    \/ \E cpu \in {0} \cup TaskIds, io \in {0} \cup TaskIds : HistReturn(cpu, io)

SpecHist == Init /\ [][NextHist]_vars

\* ---------------------------------------------------------------------
\* SpecSnap: the same program with two deadlines and two arrival times,
\* IO events for the ids of SnapIoIds, and at most SnapMaxTicks Timer
\* events while a record is IO-active.
\* ---------------------------------------------------------------------
\* policy.cc:72-82
SnapArrival(t, dl, pr, time) ==
    /\ kTaskArrival(t, dl, pr, time)
    /\ ArrivedAt(t, time)
    /\ TicksReset(t)
    /\ UNCHANGED <<shadow, note>>

\* policy.cc:84-87
SnapFinish(t) ==
    /\ kTaskFinish(t)
    /\ Departed(t)
    /\ TicksReset(t)
    /\ UNCHANGED <<shadow, note>>

\* policy.cc:89-96
SnapIoRequest(t) ==
    /\ kIoRequest(t)
    /\ TicksReset(t)
    /\ UNCHANGED <<arrival_time, shadow, note>>

\* policy.cc:98-104
SnapIoEnd(t) ==
    /\ kIoEnd(t)
    /\ TicksReset(t)
    /\ UNCHANGED <<arrival_time, shadow, note>>

\* policy.cc:106-114
SnapTimer(time) ==
    /\ \A id \in TaskIds : ticks[id] < SnapMaxTicks
    /\ kTimer(time)
    /\ TicksCount
    /\ UNCHANGED <<arrival_time, shadow, note>>

\* policy.cc:121-162
SnapReturn(cpu, io) ==
    /\ Select(cpu, io)
    /\ UNCHANGED <<arrival_time, shadow, ticks, note>>

NextSnap ==
    \/ \E t \in TaskIds, dl \in SnapDeadlines, pr \in Priorities, time \in SnapArrivalTimes :
          SnapArrival(t, dl, pr, time)
    \/ \E t \in TaskIds : SnapFinish(t)
    \/ \E t \in SnapIoIds : SnapIoRequest(t)
    \/ \E t \in SnapIoIds : SnapIoEnd(t)
    \/ \E time \in TimerTimes : SnapTimer(time)
    \/ \E cpu \in {0} \cup TaskIds, io \in {0} \cup TaskIds : SnapReturn(cpu, io)

SpecSnap == Init /\ [][NextSnap]_vars

\* ---------------------------------------------------------------------
\* SpecBatch: the program of Spec with at most BatchMaxTicks Timer events
\* while a record is IO-active.  shadow is the table that the event loop
\* builds when all the events so far come in one batch; note counts the
\* calls that had events.
\* ---------------------------------------------------------------------
\* policy.cc:72-82
BatchArrival(t, dl, pr, time) ==
    /\ kTaskArrival(t, dl, pr, time)
    /\ shadow' = batch_arrival(shadow, t, dl, pr, time)
    /\ TicksReset(t)
    /\ BatchNote
    /\ UNCHANGED arrival_time

\* policy.cc:84-87
BatchFinish(t) ==
    /\ kTaskFinish(t)
    /\ shadow' = batch_finish(shadow, t)
    /\ TicksReset(t)
    /\ BatchNote
    /\ UNCHANGED arrival_time

\* policy.cc:89-96
BatchIoRequest(t) ==
    /\ kIoRequest(t)
    /\ shadow' = batch_io_request(shadow, t)
    /\ TicksReset(t)
    /\ BatchNote
    /\ UNCHANGED arrival_time

\* policy.cc:98-104
BatchIoEnd(t) ==
    /\ kIoEnd(t)
    /\ shadow' = batch_io_end(shadow, t)
    /\ TicksReset(t)
    /\ BatchNote
    /\ UNCHANGED arrival_time

\* policy.cc:106-114
BatchTimer(time) ==
    /\ \A id \in TaskIds : ticks[id] < BatchMaxTicks
    /\ kTimer(time)
    /\ shadow' = batch_timer(shadow, time)
    /\ TicksCount
    /\ BatchNote
    /\ UNCHANGED arrival_time

\* policy.cc:121-162
BatchReturn(cpu, io) ==
    /\ Select(cpu, io)
    /\ UNCHANGED <<arrival_time, shadow, ticks, note>>

NextBatch ==
    \/ \E t \in TaskIds, dl \in Deadlines, pr \in Priorities, time \in ArrivalTimes :
          BatchArrival(t, dl, pr, time)
    \/ \E t \in TaskIds : BatchFinish(t)
    \/ \E t \in TaskIds : BatchIoRequest(t)
    \/ \E t \in TaskIds : BatchIoEnd(t)
    \/ \E time \in TimerTimes : BatchTimer(time)
    \/ \E cpu \in {0} \cup TaskIds, io \in {0} \cup TaskIds : BatchReturn(cpu, io)

SpecBatch == Init /\ [][NextBatch]_vars

\* ---------------------------------------------------------------------
\* Properties
\* ---------------------------------------------------------------------
Returned == pc = "returned"
ReadyIds == { i \in Live : ~task_states[i].is_io_active }
IoActiveIds == { i \in Live : task_states[i].is_io_active }
IsHigh(i) == task_states[i].task.priority = "kHigh"

\* i is strictly ahead of j in the CPU order: high priority before normal,
\* then larger urgency_level, then smaller slack_time
CpuAhead(i, j) ==
    \/ IsHigh(i) /\ ~IsHigh(j)
    \/ /\ IsHigh(i) = IsHigh(j)
       /\ task_states[i].urgency_level > task_states[j].urgency_level
    \/ /\ IsHigh(i) = IsHigh(j)
       /\ task_states[i].urgency_level = task_states[j].urgency_level
       /\ task_states[i].slack_time < task_states[j].slack_time

\* i is strictly ahead of j in the IO order: high priority before normal,
\* then smaller io_remaining
IoAhead(i, j) ==
    \/ IsHigh(i) /\ ~IsHigh(j)
    \/ /\ IsHigh(i) = IsHigh(j)
       /\ task_states[i].io_remaining < task_states[j].io_remaining

\* the IO candidates of a call with current_io = 0
IoCandidates == { i \in IoActiveIds : i # current_cpu }

\* C1: IO non-preemption. A call made with current_io # 0 returns
\* ioTask = current_io, whatever IO-active records the table holds.
C1_IoNonPreemption ==
    (Returned /\ current_io # 0) => action.ioTask = current_io

\* C1 witness: the device is busy with one id while another record, IO-active,
\* of high priority, is ahead of it; the busy id is echoed.
C1_Witness ==
    /\ Returned /\ current_io # 0 /\ action.ioTask = current_io
    /\ \E i \in IoActiveIds :
          /\ i # current_io /\ i # current_cpu /\ IsHigh(i)
          /\ current_io \in IoActiveIds /\ IoAhead(i, current_io)

\* C2: the returned cpuTask is never an IO-active record: it is the id of a
\* live record with is_io_active = false, and it is 0 exactly when there is
\* no such record.
C2_CpuTaskIsReady ==
    Returned =>
        /\ action.cpuTask # Idle => action.cpuTask \in ReadyIds
        /\ action.cpuTask = Idle <=> ReadyIds = {}

\* C2 witness: a record is IO-active and of high priority, another one is
\* ready and of normal priority, and the ready one is returned.
C2_Witness ==
    /\ Returned /\ action.cpuTask \in ReadyIds
    /\ \E i \in IoActiveIds : IsHigh(i) /\ ~IsHigh(action.cpuTask)

\* C3: priority dominance. If some high-priority record is ready, the
\* returned cpuTask is a high-priority record.
C3_PriorityDominance ==
    (Returned /\ \E i \in ReadyIds : IsHigh(i)) =>
        (action.cpuTask \in Live /\ IsHigh(action.cpuTask))

\* C3 witness: the high-priority record is returned although a ready record
\* of normal priority has a larger urgency_level and a smaller slack_time.
C3_Witness ==
    /\ Returned /\ action.cpuTask \in ReadyIds /\ IsHigh(action.cpuTask)
    /\ \E j \in ReadyIds :
          /\ ~IsHigh(j)
          /\ task_states[j].urgency_level > task_states[action.cpuTask].urgency_level
          /\ task_states[j].slack_time < task_states[action.cpuTask].slack_time

\* C4 (as claimed): the decision never has cpuTask = ioTask with both
\* non-zero, for every current_cpu and current_io.
C4_NoDoubleOccupancy ==
    Returned => ~(action.cpuTask = action.ioTask /\ action.cpuTask # Idle)

\* C4 (amended): the decision has cpuTask = ioTask non-zero only when that id
\* is the caller's current_io echoed back; with current_io = 0 never.
C4_DoubleOnlyByEcho ==
    (Returned /\ action.cpuTask = action.ioTask /\ action.cpuTask # Idle)
        => current_io = action.cpuTask

\* C4 witness: a call with the device free that assigns both resources.
C4_Witness ==
    /\ Returned /\ current_io = 0
    /\ action.cpuTask # Idle /\ action.ioTask # Idle
    /\ action.cpuTask # action.ioTask

\* C5: CPU selection order. With a non-empty ready set, cpuTask is a ready
\* record and no ready record is strictly ahead of it (priority, then larger
\* urgency_level, then smaller slack_time).
C5_CpuOrder ==
    (Returned /\ ReadyIds # {}) =>
        /\ action.cpuTask \in ReadyIds
        /\ \A j \in ReadyIds : ~CpuAhead(j, action.cpuTask)

\* C5 witness: two ready records of equal priority and urgency_level, the one
\* with the smaller slack_time is returned.
C5_Witness ==
    /\ Returned /\ action.cpuTask \in ReadyIds
    /\ \E j \in ReadyIds :
          /\ IsHigh(j) = IsHigh(action.cpuTask)
          /\ task_states[j].urgency_level = task_states[action.cpuTask].urgency_level
          /\ task_states[j].slack_time > task_states[action.cpuTask].slack_time

\* C6: IO selection with the device free. The candidates are the IO-active
\* records other than current_cpu; ioTask is 0 without candidates, otherwise
\* a candidate no other candidate is strictly ahead of (priority, then
\* smaller io_remaining).
C6_IoOrder ==
    (Returned /\ current_io = 0) =>
        /\ IoCandidates = {} => action.ioTask = Idle
        /\ IoCandidates # {} =>
              /\ action.ioTask \in IoCandidates
              /\ \A j \in IoCandidates : ~IoAhead(j, action.ioTask)

\* C6 witness: two candidates of equal priority, the one with the smaller
\* io_remaining is returned.
C6_Witness ==
    /\ Returned /\ current_io = 0 /\ action.ioTask \in IoCandidates
    /\ \E j \in IoCandidates :
          /\ IsHigh(j) = IsHigh(action.ioTask)
          /\ task_states[j].io_remaining > task_states[action.ioTask].io_remaining

\* C7 (as claimed): with an empty table the call returns cpuTask = 0 and
\* ioTask = 0, for every current_cpu and current_io.
C7_IdleBoth ==
    (Returned /\ Live = {}) => (action.cpuTask = Idle /\ action.ioTask = Idle)

\* C7 (amended): with an empty table the call returns cpuTask = 0 and
\* ioTask = current_io, which is 0 when the device is free.
C7_IdleOrEcho ==
    (Returned /\ Live = {}) =>
        (action.cpuTask = Idle /\ action.ioTask = current_io)

\* C7 witness: the table was emptied by a Finish and the call is made with a
\* non-zero current_cpu, once with the device free.
C7_Witness ==
    /\ Returned /\ Live = {} /\ finished # {}
    /\ current_cpu # 0 /\ current_io = 0 /\ action.ioTask = Idle

\* C8 (as claimed): between a Finish of t and the next Arrival of t, t has no
\* record and is returned neither as cpuTask nor as ioTask.
C8_FinishedNeverSelected ==
    \A t \in finished :
        /\ t \notin Live
        /\ Returned => (action.cpuTask # t /\ action.ioTask # t)

\* C8 (amended): between a Finish of t and the next Arrival of t, t has no
\* record, is never returned as cpuTask, and is returned as ioTask only as the
\* echo of a call made with current_io = t.
C8_FinishedOnlyEchoed ==
    \A t \in finished :
        /\ t \notin Live
        /\ Returned => (action.cpuTask # t /\ (action.ioTask = t => current_io = t))

\* C8 witness: t is finished, it is the caller's current CPU task, the device
\* is free, and another record is live and selected.
C8_Witness ==
    /\ Returned /\ current_io = 0 /\ current_cpu \in finished
    /\ action.cpuTask \in Live

\* C9 (as claimed): an IoRequest for a live t applied in a call with
\* current_io = 0 keeps t off the CPU in that call, and t is returned as
\* ioTask by that call or by the next one unless it is the current CPU task.
\* The next call is taken here with an empty batch.
C9_IoRequestDispatched ==
    [][ \A t \in TaskIds :
          /\ (pc' = "returned" /\ current_io' = 0 /\ io_requested'[t] # "none")
                => action'.cpuTask # t
          /\ ( /\ pc = "returned" /\ pc' = "returned"
               /\ current_io = 0 /\ io_requested[t] # "none"
               /\ t # current_cpu /\ action.ioTask # t
               /\ t # current_cpu' )
                => action'.ioTask = t ]_vars

\* C9 (amended): if an IoRequest for a live t is applied and no later event of
\* the batch is an IoEnd, Arrival or Finish for t, then cpuTask # t in that
\* call; if moreover current_io = 0 and t # current_cpu, the call returns as
\* ioTask either t or an IO-active record other than current_cpu that t is
\* not strictly ahead of in the IO order.
C9_IoRequestExcludes ==
    \A t \in TaskIds :
        (Returned /\ io_requested[t] = "req") =>
            /\ action.cpuTask # t
            /\ (current_io = 0 /\ t # current_cpu) =>
                  /\ action.ioTask \in IoCandidates
                  /\ ~IoAhead(t, action.ioTask)

\* C9 witness: the IoRequest of this call is dispatched at once while another
\* record takes the CPU.
C9_Witness ==
    /\ Returned /\ current_io = 0
    /\ \E t \in TaskIds :
          /\ io_requested[t] = "req" /\ t # current_cpu
          /\ action.ioTask = t
          /\ action.cpuTask \in ReadyIds

\* C10: once a Timer event has set urgency_level to 2, a later Timer event
\* whose timestamp is not smaller leaves it at 2 (the record is neither
\* re-created nor removed by a Timer event, remaining_time never changes).
\* LastTimer(id) is the timestamp of the Timer event that set the level.
\* Written as "the levels are kept, or the step is not that Timer event".
C10_UrgencyStaysMax ==
    [][ \A time \in TimerTimes :
          \/ \A id \in Live :
                (task_states[id].urgency_level = 2 /\ time >= LastTimer(id))
                    => /\ id \in DOMAIN task_states'
                       /\ task_states'[id].urgency_level = 2
          \/ ~kTimer(time) ]_vars

\* C10 witness: a ready record whose urgency_level was 2 before the last
\* Timer event, whose timestamp was not smaller, and that this event
\* recomputed to a negative slack_time and urgency_level 2.
C10_Witness ==
    \E id \in held :
        /\ ~task_states[id].is_io_active
        /\ task_states[id].urgency_level = 2
        /\ task_states[id].slack_time < 0

\* C11: every record has 0 <= io_remaining <= 10, and io_remaining > 0 only
\* while is_io_active; no sequence of Timer events makes it negative.
C11_IoRemainingRange ==
    \A id \in Live :
        /\ 0 <= task_states[id].io_remaining
        /\ task_states[id].io_remaining <= IoTime
        /\ task_states[id].io_remaining > 0 => task_states[id].is_io_active

\* C11 witness: an IO-active record counted down to 0 by ten Timer events,
\* next to a record in the middle of its countdown.
C11_Witness ==
    \E a, b \in IoActiveIds :
        /\ task_states[a].io_remaining = 0
        /\ task_states[b].io_remaining > 0
        /\ task_states[b].io_remaining < IoTime

\* C12: an IoRequest, IoEnd or Finish event for an id without a record
\* leaves the table as it is (no record is created) and the selection still
\* has a decision to return.  Written as "nothing changed, or the step is
\* not such an event".
C12_UnknownIdIgnored ==
    [][ \A t \in TaskIds \ Live :
          \/ /\ task_states' = task_states
             /\ cpu_choices' # {}
             /\ \A cpu \in {0} \cup TaskIds, io \in {0} \cup TaskIds :
                    (io_choices(cpu, io))' # {}
          \/ ~(kIoRequest(t) \/ kIoEnd(t) \/ kTaskFinish(t)) ]_vars

\* C12 witness: the last event of the batch named an id without a record,
\* and the call returned a live record as its CPU task.
C12_Witness ==
    /\ Returned /\ note[1] = "unknown_id" /\ note[2] \notin Live
    /\ action.cpuTask \in Live

\* C13 (as claimed): the decision is a function of the table content, the
\* events and (current_cpu, current_io): in every state, each pair of
\* parameters leaves the selection exactly one decision.
C13_Deterministic ==
    \A cpu \in {0} \cup TaskIds, io \in {0} \cup TaskIds :
        /\ Cardinality(cpu_choices) = 1
        /\ Cardinality(io_choices(cpu, io)) = 1

\* What every Timer event keeps: the ids, and the task snapshot,
\* remaining_time and is_io_active of every record (policy.cc:42-57 and
\* 109-113 write slack_time, urgency_level and io_remaining only).  A step
\* that changes one of these is not a Timer event.
TimerFrame ==
    /\ pc' = "loop"
    /\ DOMAIN task_states' = DOMAIN task_states
    /\ \A id \in Live :
          /\ task_states'[id].task = task_states[id].task
          /\ task_states'[id].remaining_time = task_states[id].remaining_time
          /\ task_states'[id].is_io_active = task_states[id].is_io_active

\* the urgency tier of C14 for a slack_time and a priority
Tier(slack, pr) ==
    IF slack <= 0 THEN 2
    ELSE IF slack <= 5 THEN 1
    ELSE IF slack <= 10 /\ pr = "kHigh" THEN 1
    ELSE 0

\* C14: after a Timer event with timestamp T every record that is not
\* IO-active has slack_time = deadline - T - remaining_time and the urgency
\* tier of that slack_time and its priority.  Written as "the records are
\* so, or the step is not that Timer event".
C14_TimerRecomputes ==
    [][ \/ ~TimerFrame
        \/ \A time \in TimerTimes :
          \/ \A id \in Live :
                /\ id \in DOMAIN task_states'
                /\ ~task_states'[id].is_io_active =>
                      /\ task_states'[id].slack_time =
                            task_states[id].task.deadline - time
                              - task_states[id].remaining_time
                      /\ task_states'[id].urgency_level =
                            Tier(task_states'[id].slack_time,
                                 task_states[id].task.priority)
          \/ ~kTimer(time) ]_vars

\* C14 witness: two ready records with the same slack_time between 6 and 10,
\* the high-priority one at tier 1, the normal one at tier 0.
C14_Witness ==
    \E a, b \in ReadyIds :
        /\ IsHigh(a) /\ ~IsHigh(b)
        /\ task_states[a].slack_time > 5 /\ task_states[a].slack_time <= 10
        /\ task_states[b].slack_time = task_states[a].slack_time
        /\ task_states[a].urgency_level = 1
        /\ task_states[b].urgency_level = 0

\* C15: slack_time and urgency_level of a record change only by a Timer
\* event applied while the record is not IO-active (or by an Arrival of its
\* id; a Finish removes it): a Timer event leaves an IO-active record's
\* values alone, IoRequest, IoEnd and the selection change neither, so after
\* IoEnd the record keeps its pre-IO values until the next Timer event.
C15_StaleWhileIo ==
    [][ \A id \in Live :
          \/ /\ id \in DOMAIN task_states'
             /\ task_states'[id].slack_time = task_states[id].slack_time
             /\ task_states'[id].urgency_level = task_states[id].urgency_level
          \/ /\ ~task_states[id].is_io_active
             /\ \E time \in TimerTimes : kTimer(time)
          \/ \E dl \in Deadlines, pr \in Priorities, time \in ArrivalTimes :
                kTaskArrival(id, dl, pr, time)
          \/ kTaskFinish(id) ]_vars

\* C15 witness: two ready records whose slack_time comes from Timer events
\* with different timestamps (one of them was IO-active during the other's
\* Timer event and kept its values through the IoEnd), and the call returns
\* the one that is ahead by these values.
C15_Witness ==
    /\ Returned /\ action.cpuTask \in ReadyIds
    /\ \E j \in ReadyIds :
          /\ LastTimer(j) \in TimerTimes
          /\ LastTimer(action.cpuTask) \in TimerTimes
          /\ LastTimer(j) # LastTimer(action.cpuTask)
          /\ CpuAhead(action.cpuTask, j)

\* C16: deadline, priority and remaining_time of a record change only by an
\* Arrival for its id, which replaces the record and clears its IO state,
\* or by a Finish for its id, which removes it; IoRequest, IoEnd, Timer and
\* the selection leave them alone whatever task snapshot the event carries.
C16_SnapshotFrame ==
    [][ \A id \in Live :
          \/ /\ id \in DOMAIN task_states'
             /\ task_states'[id].task = task_states[id].task
             /\ task_states'[id].remaining_time = task_states[id].remaining_time
          \/ /\ \E dl \in Deadlines, pr \in Priorities, time \in ArrivalTimes :
                   kTaskArrival(id, dl, pr, time)
             /\ ~task_states'[id].is_io_active
             /\ task_states'[id].io_remaining = 0
          \/ kTaskFinish(id) /\ id \notin DOMAIN task_states' ]_vars

\* C16 witness: the call returned after an IoRequest (the record is
\* IO-active at 10) whose event carried a deadline or priority other than
\* the stored one, and the record still has the deadline and the
\* remaining_time of its Arrival.
C16_Witness ==
    /\ Returned
    /\ \E t \in IoActiveIds :
          /\ note = <<"other_snapshot", t>>
          /\ task_states[t].io_remaining = IoTime
          /\ task_states[t].task.deadline \in Deadlines
          /\ task_states[t].remaining_time =
                task_states[t].task.deadline - arrival_time[t]

\* C17: for an IO-active record io_remaining = max(0, 10 - k), k the number
\* of Timer events applied since the most recent IoRequest for its id (an
\* IoRequest starts k again at 0, also for a record that is IO-active).
C17_IoCountdown ==
    \A id \in IoActiveIds :
        task_states[id].io_remaining = Max(0, IoTime - ticks[id])

\* C17 witness: one record more than ten Timer events after its IoRequest,
\* at 0, and one whose IoRequest was repeated during the countdown.
C17_Witness ==
    \E a, b \in IoActiveIds :
        /\ ticks[a] > IoTime /\ task_states[a].io_remaining = 0
        /\ ticks[b] < ticks[a] /\ ticks[b] > 0

\* C18: an IO-active record stays IO-active in every step that is not an
\* IoEnd, an Arrival or a Finish for its id; in particular a Timer event
\* leaves a record with io_remaining = 0 IO-active at 0; and a returned
\* cpuTask is never an IO-active record.
C18_ExpiredIoHolds ==
    [][ /\ \A id \in IoActiveIds :
              \/ /\ id \in DOMAIN task_states'
                 /\ task_states'[id].is_io_active
                 /\ \/ task_states[id].io_remaining # 0
                    \/ task_states'[id].io_remaining = 0
                    \/ kIoRequest(id)
              \/ kIoEnd(id)
              \/ kTaskFinish(id)
              \/ \E dl \in Deadlines, pr \in Priorities, time \in ArrivalTimes :
                    kTaskArrival(id, dl, pr, time)
        /\ pc' = "returned" => action'.cpuTask \notin IoActiveIds' ]_vars

\* C18 witness: a call returns a ready record while the other record is
\* IO-active with its countdown expired more than one Timer event ago.
C18_Witness ==
    /\ Returned /\ action.cpuTask \in ReadyIds
    /\ \E id \in IoActiveIds :
          /\ task_states[id].io_remaining = 0
          /\ ticks[id] > IoTime + 1

\* two records whose slack_time was computed by a Timer event with the same
\* timestamp
SameTimer(a, b) ==
    \E time \in TimerTimes :
        /\ task_states[a].slack_time = arrival_time[a] - time
        /\ task_states[b].slack_time = arrival_time[b] - time

\* C19: after a Timer event with timestamp T every record that is not
\* IO-active has slack_time = arrival time - T and, for T >= arrival time,
\* urgency_level 2; and a returned cpuTask did not arrive later than any
\* ready record of its priority updated by the same Timer timestamp.
C19_ArrivalOrder ==
    [][ /\ \/ ~TimerFrame
           \/ \A time \in TimerTimes :
              \/ \A id \in Live :
                    /\ id \in DOMAIN task_states'
                    /\ ~task_states[id].is_io_active =>
                          /\ task_states'[id].slack_time = arrival_time[id] - time
                          /\ time >= arrival_time[id] =>
                                task_states'[id].urgency_level = 2
              \/ ~kTimer(time)
        /\ (pc' = "returned" /\ action'.cpuTask \in ReadyIds') =>
              \A r \in ReadyIds' :
                  ( /\ task_states'[r].task.priority =
                          task_states'[action'.cpuTask].task.priority
                    /\ (SameTimer(action.cpuTask, r))' )
                  => arrival_time'[action'.cpuTask] <= arrival_time'[r] ]_vars

\* C19 witness: the returned cpuTask arrived earlier than a ready record of
\* its priority updated by the same Timer, and has the later deadline.
C19_Witness ==
    /\ Returned /\ action.cpuTask \in ReadyIds
    /\ \E r \in ReadyIds :
          /\ task_states[r].task.priority =
                task_states[action.cpuTask].task.priority
          /\ SameTimer(action.cpuTask, r)
          /\ arrival_time[action.cpuTask] < arrival_time[r]
          /\ task_states[action.cpuTask].task.deadline > task_states[r].task.deadline

====
